---- MODULE Spec2Model ----
(***************************************************************************)
(* smartcatcher: the price-tracking pipeline.                              *)
(*                                                                         *)
(*   backend/app/services/product.py      ProductService                   *)
(*   backend/app/services/subscription.py SubscriptionService              *)
(*   backend/app/services/notification.py NotificationService              *)
(*   backend/app/scrapers/__init__.py     the adapter registry             *)
(*   worker/tasks/scraper.py              the scan tasks and the           *)
(*                                        notification evaluators          *)
(*                                                                         *)
(* A price is a whole number of half cents: the scrapers build Decimals of *)
(* any precision, the price columns are Numeric(10, 2) and keep whole      *)
(* cents, i.e. even amounts.  None stands for Python's None / SQL NULL in  *)
(* a numeric column, NoTime for a NULL timestamp.                          *)
(***************************************************************************)
EXTENDS Integers, Sequences, FiniteSets, TLC

VARIABLES
    products,       \* table "products": row id = index
    history,        \* table "price_history", in insertion order
    now,            \* datetime.utcnow(), a logical clock
    upstream,       \* what each marketplace item answers to a scrape
    task,           \* the worker's running Celery task
    subscriptions,  \* table "subscriptions"
    notifications,  \* table "notifications"
    lastCall,       \* the latest evaluator call and its arguments
    prevScan,       \* the single-URL scan that returned last, while nothing
                    \* else has written to the store or changed upstream
    quiet,          \* "yes" once a periodic scan has run from start to return
                    \* with no API write and no upstream change since
    fetch,          \* the make_request call in progress
    race,           \* the two concurrent sessions, each between two statements
    parse,          \* the last call of parse_price: its text and its result
    ebay,           \* the EbayScraper instance: its token cache, and the wall clock
    session,        \* the HTTP clients of the adapters, and the scan that uses them
    scans,          \* the scan tasks that run at the same time on one product
    dispatch        \* the dispatch runs, and the messages sent per notification

vars == <<products, history, now, upstream, task, subscriptions,
          notifications, lastCall, prevScan, quiet, fetch, race, parse, ebay, session, scans, dispatch>>

storeVars == <<products, history, now>>
evalVars == <<subscriptions, notifications, lastCall>>

----------------------------------------------------------------------------
(* Bounds of the exploration *)

MaxProducts == 3
MaxHistory == 4
MaxClock == 4
MaxSubscriptions == 2
MaxNotifications == 2
MaxCalls == 1
MaxAttempts == 3
MaxLen == 4
MaxTime == 1500
MaxTokens == 3
MaxChanges == 2

----------------------------------------------------------------------------
(* Values *)

None == -1
NoTime == 0

\* 0.00, 0.01, 0.015 and 0.02 in half cents
Prices == {0, 2, 3, 4}
OptPrices == Prices \cup {None}
Currencies == {"USD", "EUR", "JPY"}
NoBrand == "none"

\* a Decimal written to a Numeric(10, 2) column and read back (refresh)
Quantize(price) == IF price = None THEN None ELSE price + (price % 2)

U_EBAY == "https://www.ebay.com/itm/123456789"
U_EBAY_VAR == " https://www.ebay.com/ITM/123456789"
U_ETSY == "https://www.etsy.com/listing/123456789/x"
U_EXAMPLE == "https://example.com/product/123"
U_EBAY_UPPER == "HTTPS://WWW.EBAY.COM/ITM/123456789"
U_MULTI == "https://www.ebay.com/itm/987654321?ref=etsy.com"
U_DEMO == "http://demo-server:8080/product/1"
U_WEBSCRAPER == "https://webscraper.io/test-sites/e-commerce/allinone/product/1"

Urls == {U_EBAY, U_EBAY_VAR, U_ETSY, U_EXAMPLE}

\* the URLs of the on-demand scan
ScanUrls == Urls \cup {U_EBAY_UPPER, U_MULTI, U_DEMO, U_WEBSCRAPER}

\* url.strip().lower()
Normalize(url) == IF url \in {U_EBAY_VAR, U_EBAY_UPPER} THEN U_EBAY ELSE url

\* urlparse(url).hostname, lower-cased, without a leading "www."
Hostname(url) ==
    CASE url \in {U_EBAY, U_EBAY_VAR, U_EBAY_UPPER, U_MULTI} -> "ebay.com"
      [] url = U_ETSY -> "etsy.com"
      [] url = U_EXAMPLE -> "example.com"
      [] url = U_DEMO -> "demo-server"
      [] url = U_WEBSCRAPER -> "webscraper.io"

ALLOWED_STORE_DOMAINS == {"ebay.com", "ebay.de", "etsy.com", "example.com", "demo.com"}

\* needle in url (Python substring test)
Contains(url, needle) ==
    CASE needle = "ebay." -> url \in {U_EBAY, U_EBAY_VAR, U_MULTI}
      [] needle = "ebay.com" -> url \in {U_EBAY, U_EBAY_VAR, U_MULTI}
      [] needle = "etsy.com" -> url \in {U_ETSY, U_MULTI}
      [] needle = "webscraper.io" -> url = U_WEBSCRAPER
      [] needle = "demo-server" -> url = U_DEMO

----------------------------------------------------------------------------
(* The adapter registry *)

SCRAPERS == <<"demo", "webscraper_io", "ebay", "etsy">>

can_handle_url(scraper, url) ==
    CASE scraper = "demo" -> Contains(Normalize(url), "demo-server")
      [] scraper = "webscraper_io" -> Contains(url, "webscraper.io")
      [] scraper = "ebay" -> Contains(url, "ebay.com") \/ Contains(url, "ebay.")
      [] scraper = "etsy" -> Contains(url, "etsy.com")

NoScraper == "ValueError"

\* a router that falls back to the generic page scraper
get_scraper_for_url_fallback(url) ==
    LET claiming == {i \in 1..Len(SCRAPERS) : can_handle_url(SCRAPERS[i], url)}
    IN  IF claiming = {} THEN "webscraper_io"
        ELSE SCRAPERS[CHOOSE i \in claiming : \A j \in claiming : i <= j]

\* the first adapter of the registry that claims the URL, else ValueError
get_scraper_for_url(url) ==
    LET claiming == {i \in 1..Len(SCRAPERS) : can_handle_url(SCRAPERS[i], url)}
    IN  IF claiming = {} THEN NoScraper
        ELSE SCRAPERS[CHOOSE i \in claiming : \A j \in claiming : i <= j]

\* the marketplace items a scrape can reach
Items == {U_EBAY, U_ETSY}

ScrapeError == [error |-> TRUE, price |-> None, currency |-> "USD", brand |-> NoBrand]

\* a ScrapedProduct
Listing(p, c) == [error |-> FALSE, price |-> p, currency |-> c, brand |-> "acme"]

\* scraper.scrape_product(url): the listing, or an exception; the pages
\* outside the two marketplace items always answer the same listing
scrape_product(url) ==
    IF Normalize(url) \in Items THEN upstream[Normalize(url)] ELSE Listing(2, "USD")

----------------------------------------------------------------------------
(* ProductService *)

Product(url, brand, price, currency) ==
    [url |-> url, brand |-> brand, current_price |-> Quantize(price),
     currency |-> currency, is_active |-> TRUE, last_scraped_at |-> NoTime]

PriceHistory(pid, price, currency) ==
    [product_id |-> pid, price |-> Quantize(price), currency |-> currency]

ProductIds == 1..Len(products)

\* select(Product).where(Product.url == url.strip().lower()): a row id or 0
get_by_url(url) ==
    LET found == {p \in ProductIds : products[p].url = Normalize(url)}
    IN  IF found = {} THEN 0 ELSE CHOOSE p \in found : TRUE

\* the validation chain of ProductService.create; "ok" when the row is
\* inserted.  current_price <= 0 on None is a TypeError.
create_outcome(url, price, currency, store_name) ==
    CASE get_by_url(url) # 0 -> "existing"
      [] Hostname(Normalize(url)) \notin ALLOWED_STORE_DOMAINS -> "ValidationException"
      [] price = None -> "TypeError"
      [] price <= 0 -> "ValidationException"
      [] currency \notin {"USD", "EUR", "GBP"} -> "ValidationException"
      [] store_name = "" -> "ValidationException"
      [] OTHER -> "ok"

\* ProductService.create: the tables after the call
create_products(url, brand, price, currency, store_name) ==
    IF create_outcome(url, price, currency, store_name) = "ok"
    THEN Append(products, Product(Normalize(url), brand, price, currency))
    ELSE products

create_history(url, price, currency, store_name) ==
    IF create_outcome(url, price, currency, store_name) = "ok"
    THEN Append(history, PriceHistory(Len(products) + 1, price, currency))
    ELSE history

\* ProductService.update_price: the product row and the new history row
update_price_products(pid, new_price, currency) ==
    [products EXCEPT ![pid].current_price = Quantize(new_price),
                     ![pid].currency = currency]

update_price_history(pid, new_price, currency) ==
    Append(history, PriceHistory(pid, new_price, currency))

\* a mark_as_scraped that leaves the timestamp alone
mark_as_scraped_skipped(prods, pid) == prods

\* ProductService.mark_as_scraped
mark_as_scraped(prods, pid) ==
    [prods EXCEPT ![pid].last_scraped_at = now]

\* ORDER BY last_scraped_at ASC with the nulls last
StaleBefore_nulls_last(a, b) ==
    \/ b.last_scraped_at = NoTime
    \/ /\ a.last_scraped_at # NoTime
       /\ a.last_scraped_at <= b.last_scraped_at

\* ORDER BY last_scraped_at ASC NULLS FIRST
StaleBefore(a, b) ==
    \/ a.last_scraped_at = NoTime
    \/ /\ b.last_scraped_at # NoTime
       /\ a.last_scraped_at <= b.last_scraped_at

IsInjective(s) == \A i, j \in 1..Len(s) : s[i] = s[j] => i = j

Min(a, b) == IF a < b THEN a ELSE b

\* the rows WHERE is_active, in every order ORDER BY allows (rows with equal
\* timestamps come in any order)
OrderedForScraping ==
    LET active == {p \in ProductIds : products[p].is_active}
    IN  {s \in [1..Cardinality(active) -> active] :
            /\ IsInjective(s)
            /\ \A i, j \in 1..Len(s) :
                   i < j => StaleBefore(products[s[i]], products[s[j]])}

\* ProductService.get_products_for_scraping(limit): every answer of
\* WHERE .. ORDER BY .. LIMIT limit
get_products_for_scraping(limit) ==
    {SubSeq(s, 1, Min(limit, Len(s))) : s \in OrderedForScraping}

\* ProductService.list_products(brand=brand, active_only=True):
\* ORDER BY created_at DESC, i.e. the newest row first
list_products(brand) ==
    LET rows == {p \in ProductIds : products[p].is_active /\ products[p].brand = brand}
    IN  CHOOSE s \in [1..Cardinality(rows) -> rows] :
            IsInjective(s) /\ \A i, j \in 1..Len(s) : i < j => s[i] > s[j]

NoScan == [url |-> "", price |-> None]

----------------------------------------------------------------------------
(* API requests on products (backend/app/api/v1/products.py) *)

\* POST /products
CreateProduct(url, brand, price, currency) ==
    /\ Len(products) < MaxProducts
    /\ Len(history) < MaxHistory
    /\ products' = create_products(url, brand, price, currency, "store")
    /\ history' = create_history(url, price, currency, "store")
    /\ prevScan' = NoScan
    /\ quiet' = "no"
    /\ UNCHANGED <<dispatch, scans, session, ebay, parse, race, fetch, now, upstream, task, evalVars>>

\* ProductService.update with the fields of a ProductUpdate that the request
\* set (exclude_unset): setattr for each of them, then commit and refresh
update(pid, setPrice, price, setActive, active) ==
    [products EXCEPT
        ![pid].current_price = IF setPrice THEN Quantize(price) ELSE @,
        ![pid].is_active = IF setActive THEN active ELSE @]

\* PATCH /products/{product_id}
UpdateProduct(pid, setPrice, price, setActive, active) ==
    /\ pid \in ProductIds
    /\ products' = update(pid, setPrice, price, setActive, active)
    /\ prevScan' = NoScan
    /\ quiet' = "no"
    /\ UNCHANGED <<dispatch, scans, session, ebay, parse, race, fetch, history, now, upstream, task, evalVars>>

\* the marketplace changes what it answers for an item.  Every task scrapes
\* an item at most once, so a change during a task is the same as a change
\* before or after it.
UpstreamChange(item, v) ==
    /\ task.kind = "idle"
    /\ upstream[item] # v
    /\ upstream' = [upstream EXCEPT ![item] = v]
    /\ prevScan' = NoScan
    /\ quiet' = "no"
    /\ UNCHANGED <<dispatch, scans, session, ebay, parse, race, fetch, storeVars, task, evalVars>>

----------------------------------------------------------------------------
(* worker/tasks/scraper.py: the scan tasks *)

\* limit=50 of the periodic scan, scaled down
BatchLimit == 2

NoRow == [id |-> 0, current_price |-> None]

\* settings.scraper_request_delay, in seconds
scraper_request_delay == 1

IdleTask ==
    [kind |-> "idle", pc |-> "idle", arg |-> "", sel |-> <<>>, i |-> 0,
     checked |-> 0, updated |-> 0, errors |-> {}, started |-> NoTime,
     existing |-> NoRow, product_id |-> 0, limit |-> 0, scraper |-> "",
     slept |-> 0]

\* a Product object a task holds in its session: the row id and the
\* current_price the session loaded
Loaded(pid) == [id |-> pid, current_price |-> products[pid].current_price]

\* async_check_all_product_prices, line 53: select the batch
BatchStart ==
    /\ task.kind = "idle"
    /\ \E s \in get_products_for_scraping(BatchLimit) :
          task' = [IdleTask EXCEPT
                      !.kind = "batch", !.pc = "loop",
                      !.arg = IF quiet = "yes" THEN "repeat" ELSE "first",
                      !.limit = BatchLimit,
                      !.sel = [i \in 1..Len(s) |-> Loaded(s[i])],
                      !.i = 1, !.started = now]
    /\ quiet' = IF quiet = "yes" THEN "yes" ELSE "running"
    /\ UNCHANGED <<dispatch, scans, session, ebay, parse, race, fetch, storeVars, upstream, evalVars, prevScan>>

\* async_check_brand_products, line 283: the active products of the brand
BrandStart(brand_name) ==
    /\ task.kind = "idle"
    /\ LET s == list_products(brand_name)
       IN  task' = [IdleTask EXCEPT
                       !.kind = "brand", !.pc = "loop", !.arg = brand_name,
                       !.sel = [i \in 1..Len(s) |-> Loaded(s[i])],
                       !.i = 1, !.started = now]
    /\ UNCHANGED <<dispatch, scans, session, ebay, parse, race, fetch, storeVars, upstream, evalVars, prevScan, quiet>>

\* a change test that does not compare with the loaded price
price_changed_uncompared(scraped, loaded_price) ==
    /\ scraped.price # None
    /\ scraped.price # 0

\* scraped_data.price and scraped_data.price != product.current_price
price_changed(scraped, loaded_price) ==
    /\ scraped.price # None
    /\ scraped.price # 0
    /\ scraped.price # loaded_price

\* a handler that raises again instead of continuing
loop_except_reraised(t, pid) ==
    [t EXCEPT !.pc = "raised", !.errors = @ \cup {pid}, !.slept = 0]

\* "except Exception as e: logger.error(..); continue" of the two loops:
\* the next pass starts at once (slept: the seconds slept since the scan
\* of the product before ended)
loop_except(t, pid) == [t EXCEPT !.i = @ + 1, !.errors = @ \cup {pid}, !.slept = 0]

\* what the scan tasks do with the evaluator once update_price returned:
\* the call is commented out ("TODO"), so nothing
evaluate_after_update(call, fn, pid, old_price, new_price) == call

\* the body of "for product in products" in the periodic and the brand
\* scan: resolve the adapter, scrape, persist a changed price, mark as
\* scraped, sleep scraper_request_delay
LoopBody(kind) ==
    /\ task.kind = kind
    /\ task.pc = "loop"
    /\ task.i <= Len(task.sel)
    /\ LET loaded == task.sel[task.i]
           pid == loaded.id
           url == products[pid].url
           scraper == get_scraper_for_url(url)
           scraped == scrape_product(url)
       IN  IF scraper = NoScraper \/ scraped.error
           THEN /\ task' = [loop_except(task, pid) EXCEPT !.scraper = scraper]
                /\ UNCHANGED <<dispatch, scans, session, ebay, parse, race, fetch, storeVars, upstream, evalVars, prevScan, quiet>>
           ELSE /\ now < MaxClock
                /\ IF price_changed(scraped, loaded.current_price)
                   THEN /\ Len(history) < MaxHistory
                        /\ products' = mark_as_scraped(
                               update_price_products(pid, scraped.price, scraped.currency), pid)
                        /\ history' = update_price_history(pid, scraped.price, scraped.currency)
                        /\ lastCall' = evaluate_after_update(lastCall, kind, pid,
                               loaded.current_price, scraped.price)
                        /\ task' = [task EXCEPT !.i = @ + 1, !.checked = @ + 1,
                                                !.updated = @ + 1,
                                                !.scraper = scraper,
                                                !.slept = scraper_request_delay]
                   ELSE /\ products' = mark_as_scraped(products, pid)
                        /\ task' = [task EXCEPT !.i = @ + 1, !.checked = @ + 1,
                                                !.scraper = scraper,
                                                !.slept = scraper_request_delay]
                        /\ UNCHANGED <<dispatch, scans, session, ebay, parse, race, fetch, history, lastCall>>
                /\ now' = now + 1
                /\ prevScan' = NoScan
                /\ UNCHANGED <<dispatch, scans, session, ebay, parse, race, fetch, upstream, subscriptions, notifications, quiet>>

BatchStep == LoopBody("batch")

BrandStep == LoopBody("brand")

\* line 100: return {"checked": checked_count, "updated": updated_count}
\* line 323: return {"brand": brand_name, "checked": .., "updated": ..}
LoopReturn ==
    /\ task.kind \in {"batch", "brand"}
    /\ task.pc = "loop"
    /\ task.i > Len(task.sel)
    /\ task' = [task EXCEPT !.pc = "returned"]
    /\ quiet' = IF task.kind = "batch" /\ quiet = "running" THEN "yes" ELSE quiet
    /\ UNCHANGED <<dispatch, scans, session, ebay, parse, race, fetch, storeVars, upstream, evalVars, prevScan>>

\* async_scrape_single_product, line 181: look the URL up
SingleStart(product_url) ==
    /\ task.kind = "idle"
    /\ LET pid == get_by_url(product_url)
       IN  task' = [IdleTask EXCEPT
                       !.kind = "single", !.pc = "scrape", !.arg = product_url,
                       !.existing = IF pid = 0 THEN NoRow ELSE Loaded(pid),
                       !.started = now]
    /\ UNCHANGED <<dispatch, scans, session, ebay, parse, race, fetch, storeVars, upstream, evalVars, prevScan, quiet>>

\* lines 183-229: resolve the adapter, scrape, then update the existing
\* product or create a new one; every exception is logged and raised again
SingleFinish ==
    /\ task.kind = "single"
    /\ task.pc = "scrape"
    /\ LET url == task.arg
           scraper == get_scraper_for_url(url)
           scraped == scrape_product(url)
           pid == task.existing.id
       IN  IF scraper = NoScraper \/ scraped.error
           THEN /\ task' = [task EXCEPT !.pc = "raised", !.scraper = scraper]
                /\ UNCHANGED <<dispatch, scans, session, ebay, parse, race, fetch, storeVars, upstream, evalVars, prevScan, quiet>>
           ELSE IF pid # 0
           THEN /\ now < MaxClock
                /\ IF price_changed(scraped, task.existing.current_price)
                   THEN /\ Len(history) < MaxHistory
                        /\ products' = mark_as_scraped(
                               update_price_products(pid, scraped.price, scraped.currency), pid)
                        /\ history' = update_price_history(pid, scraped.price, scraped.currency)
                        /\ lastCall' = evaluate_after_update(lastCall, "single", pid,
                               task.existing.current_price, scraped.price)
                   ELSE /\ products' = mark_as_scraped(products, pid)
                        /\ UNCHANGED <<dispatch, scans, session, ebay, parse, race, fetch, history, lastCall>>
                /\ now' = now + 1
                /\ task' = [task EXCEPT !.pc = "returned", !.product_id = pid,
                                        !.scraper = scraper]
                /\ prevScan' = [url |-> url, price |-> scraped.price]
                /\ UNCHANGED <<dispatch, scans, session, ebay, parse, race, fetch, upstream, subscriptions, notifications, quiet>>
           ELSE LET outcome == create_outcome(url, scraped.price, scraped.currency, scraper)
                    new_id == IF outcome = "ok" THEN Len(products) + 1 ELSE get_by_url(url)
                IN  IF outcome \in {"ok", "existing"}
                    THEN /\ now < MaxClock
                         /\ Len(products) < MaxProducts
                         /\ Len(history) < MaxHistory
                         /\ products' = mark_as_scraped(
                                create_products(url, scraped.brand, scraped.price,
                                                scraped.currency, scraper), new_id)
                         /\ history' = create_history(url, scraped.price,
                                                      scraped.currency, scraper)
                         /\ now' = now + 1
                         /\ task' = [task EXCEPT !.pc = "returned", !.product_id = new_id,
                                                 !.scraper = scraper]
                         /\ prevScan' = [url |-> url, price |-> scraped.price]
                         /\ UNCHANGED <<dispatch, scans, session, ebay, parse, race, fetch, upstream, evalVars, quiet>>
                    ELSE /\ task' = [task EXCEPT !.pc = "raised", !.scraper = scraper]
                         /\ UNCHANGED <<dispatch, scans, session, ebay, parse, race, fetch, storeVars, upstream, evalVars, prevScan, quiet>>

\* the task is over, the worker takes the next one
TaskEnd ==
    /\ task.pc \in {"returned", "raised"}
    /\ task' = IdleTask
    /\ UNCHANGED <<dispatch, scans, session, ebay, parse, race, fetch, storeVars, upstream, evalVars, prevScan, quiet>>

----------------------------------------------------------------------------
(* The fetch engine: BaseScraper.make_request (scrapers/base.py) *)

\* the sleep after a 429 without a Retry-After header
DefaultBackoff == 60

\* what the upstream does with one request: a response with a status and
\* maybe a Retry-After header, or a transport error (httpx.RequestError)
Response(status, retry_after) ==
    [transport |-> "ok", status |-> status, retry_after |-> retry_after]

RequestError == [transport |-> "RequestError", status |-> 0, retry_after |-> None]

Outcomes ==
    {Response(200, None), Response(404, None), Response(429, 2), Response(429, None),
     Response(500, None), RequestError}

NoException == [kind |-> "none", attempt |-> 0, status |-> 0]

IdleFetch ==
    [pc |-> "idle", attempts |-> 0, attempt |-> 0, outcomes |-> <<>>,
     gaps |-> <<>>, waited |-> 0, last_exception |-> NoException,
     result |-> NoException]

\* make_request is called, with settings.scraper_retry_attempts = attempts
FetchStart(attempts) ==
    /\ fetch.pc = "idle"
    /\ fetch' = [IdleFetch EXCEPT !.pc = "loop", !.attempts = attempts]
    /\ UNCHANGED <<dispatch, scans, session, ebay, parse, race, products, history, now, upstream, task, subscriptions,
                   notifications, lastCall, prevScan, quiet>>

\* the sleep before the request of an attempt: exponential backoff from the
\* second attempt on, the politeness delay before the first
request_delay(attempt) ==
    IF attempt > 0 THEN scraper_request_delay * (2 ^ (attempt - 1))
    ELSE scraper_request_delay

\* a 429 handler that retries without sleeping
rate_limit_sleep_skipped(retry_after) == 0

\* the sleep after a 429: int(Retry-After) when the header is there, else 60
rate_limit_sleep(retry_after) ==
    IF retry_after # None THEN retry_after ELSE DefaultBackoff

\* one pass of "for attempt in range(settings.scraper_retry_attempts)"
make_request_attempt(f, outcome) ==
    LET sent == [f EXCEPT !.outcomes = Append(@, outcome),
                          !.gaps = Append(@, f.waited + request_delay(f.attempt)),
                          !.waited = 0]
    IN  IF outcome.transport # "ok"
        THEN [sent EXCEPT !.attempt = @ + 1,
                          !.last_exception =
                              [kind |-> "RequestError", attempt |-> f.attempt + 1,
                               status |-> 0]]
        ELSE IF outcome.status = 429
        THEN [sent EXCEPT !.attempt = @ + 1,
                          !.waited = rate_limit_sleep(outcome.retry_after)]
        ELSE IF outcome.status >= 400
        THEN [sent EXCEPT !.attempt = @ + 1,
                          !.last_exception =
                              [kind |-> "HTTPStatusError", attempt |-> f.attempt + 1,
                               status |-> outcome.status]]
        ELSE [sent EXCEPT !.pc = "returned",
                          !.result = [kind |-> "response", attempt |-> f.attempt + 1,
                                      status |-> outcome.status]]

FetchAttempt(outcome) ==
    /\ fetch.pc = "loop"
    /\ fetch.attempt < fetch.attempts
    /\ fetch' = make_request_attempt(fetch, outcome)
    /\ UNCHANGED <<dispatch, scans, session, ebay, parse, race, products, history, now, upstream, task, subscriptions,
                   notifications, lastCall, prevScan, quiet>>

\* raise last_exception or Exception("All retry attempts failed")
make_request_exhausted(f) ==
    [f EXCEPT !.pc = "raised",
              !.result = IF f.last_exception = NoException
                         THEN [kind |-> "Exception", attempt |-> 0, status |-> 0]
                         ELSE f.last_exception]

FetchRaise ==
    /\ fetch.pc = "loop"
    /\ fetch.attempt >= fetch.attempts
    /\ fetch' = make_request_exhausted(fetch)
    /\ UNCHANGED <<dispatch, scans, session, ebay, parse, race, products, history, now, upstream, task, subscriptions,
                   notifications, lastCall, prevScan, quiet>>

\* EbayScraper.scrape_product and EtsyScraper.scrape_product after
\* make_request_with_rate_limit: what the adapter returns or raises.  An
\* exception of make_request propagates; a returned response with status
\* 404 becomes the adapter's ValueError("... not found").
api_scrape_product(f) ==
    IF f.pc = "raised" THEN f.result.kind
    ELSE IF f.result.status = 404 THEN "ValueError: not found"
    ELSE "ScrapedProduct"

\* the caller has the response or the exception
FetchEnd ==
    /\ fetch.pc \in {"returned", "raised"}
    /\ fetch' = IdleFetch
    /\ UNCHANGED <<dispatch, scans, session, ebay, parse, race, products, history, now, upstream, task, subscriptions,
                   notifications, lastCall, prevScan, quiet>>

----------------------------------------------------------------------------
(* The periodic scan: one worker, the product API and the marketplaces *)

NoCall == [n |-> 0, fn |-> "none", product_id |-> 0, old_price |-> None,
           new_price |-> None, subs |-> <<>>, first |-> 1]

\* what a marketplace item can answer
UpstreamValues(item) ==
    IF item = U_EBAY
    THEN {ScrapeError, Listing(None, "USD"), Listing(2, "USD"), Listing(4, "EUR")}
    ELSE {ScrapeError, Listing(2, "USD"), Listing(4, "USD")}

\* EbayScraper.__init__: no token, no expiry; time.time() is at StartTime
StartTime == 600

NewEbayScraper ==
    [pc |-> "idle", clock |-> StartTime, access_token |-> None,
     token_expires_at |-> None, expires |-> None, requests |-> 0,
     served |-> None, cached |-> FALSE, raised |-> ""]

\* the adapter instances: the four of the registry and the
\* WebScraperIOScraper that DemoScraper builds for itself
Adapters == {"demo", "webscraper_io", "ebay", "etsy", "demo._webscraper_helper"}

\* BaseScraper.__init__: self._client = None, self._client_managed = False
NoClient == [open |-> FALSE, managed |-> FALSE]

\* no scan in progress, no client created yet
NoSession ==
    [pc |-> "idle", url |-> "", scraper |-> "", error |-> "",
     clients |-> [a \in Adapters |-> NoClient]]

\* the scan tasks that can run at the same time: the periodic batch, a
\* brand scan and a single-URL scan, each in its own session
Scanners == {"batch", "brand", "single"}

IdleScan == [pc |-> "idle", loaded |-> NoRow, price |-> None, currency |-> "USD"]

\* no scan running; changes counts the price changes of the marketplace
NoScans == [tasks |-> [k \in Scanners |-> IdleScan], changes |-> 0]

\* the dispatch runs that can be in progress
Runs == {1, 2}

IdleRun == [pc |-> "idle", fetched |-> <<>>, i |-> 0, sent |-> 0, failed |-> 0]

\* no run in progress; delivered[n] counts the messages sent for
\* notification n
NoDispatch ==
    [runs |-> [r \in Runs |-> IdleRun], delivered |-> [n \in 1..MaxNotifications |-> 0]]

\* what parse_price returns
Returned(price, currency) == [raised |-> "", price |-> price, currency |-> currency]

\* no text parsed yet
NoParse == [pc |-> "idle", text |-> <<>>, result |-> [raised |-> "", price |-> [kind |-> "None", coefficient |-> 0, exponent |-> 0], currency |-> "USD"]]

\* the concurrent sessions
Workers == {1, 2}

IdleWorker ==
    [pc |-> "idle", op |-> "", url |-> "", existing |-> NoRow, price |-> None,
     currency |-> "USD", store_name |-> "", product_id |-> 0, error |-> ""]

Init ==
    /\ products = <<>>
    /\ history = <<>>
    /\ now = 1
    /\ upstream = [item \in Items |-> Listing(2, "USD")]
    /\ task = IdleTask
    /\ subscriptions = <<>>
    /\ notifications = <<>>
    /\ lastCall = NoCall
    /\ prevScan = NoScan
    /\ quiet = "no"
    /\ fetch = IdleFetch
    /\ race = [w \in Workers |-> IdleWorker]
    /\ parse = NoParse
    /\ ebay = NewEbayScraper
    /\ session = NoSession
    /\ scans = NoScans
    /\ dispatch = NoDispatch

Next ==
    \/ \E url \in {U_EBAY_VAR, U_ETSY, U_EXAMPLE} :
          CreateProduct(url, "acme", 2, "USD")
    \/ \E pid \in 1..MaxProducts : UpdateProduct(pid, FALSE, None, TRUE, FALSE)
    \/ \E item \in Items : \E v \in UpstreamValues(item) : UpstreamChange(item, v)
    \/ BatchStart
    \/ BatchStep
    \/ LoopReturn
    \/ TaskEnd

Spec == Init /\ [][Next]_vars

----------------------------------------------------------------------------
(* The fetch engine against every upstream *)

NextFetch ==
    \/ \E attempts \in 1..MaxAttempts : FetchStart(attempts)
    \/ \E outcome \in Outcomes : FetchAttempt(outcome)
    \/ FetchRaise
    \/ FetchEnd

SpecFetch == Init /\ [][NextFetch]_vars

----------------------------------------------------------------------------
(* On-demand scans: the single-URL scan and the brand scan *)

NextOnDemand ==
    \/ CreateProduct(U_ETSY, "acme", 2, "USD")
    \/ \E v \in {ScrapeError, Listing(None, "USD"), Listing(0, "USD"),
                 Listing(2, "USD"), Listing(3, "USD"), Listing(4, "EUR")} :
          UpstreamChange(U_EBAY, v)
    \/ \E v \in {Listing(2, "USD"), Listing(4, "USD")} : UpstreamChange(U_ETSY, v)
    \/ \E product_url \in ScanUrls : SingleStart(product_url)
    \/ SingleFinish
    \/ BrandStart("acme")
    \/ BrandStep
    \/ LoopReturn
    \/ TaskEnd

SpecOnDemand == Init /\ [][NextOnDemand]_vars

----------------------------------------------------------------------------
(* Subscriptions (schemas/subscription.py, services/subscription.py) *)

\* Python truthiness of an Optional number: None and zero are false
Truthy(x) == x # None /\ x # 0

\* thresholds and the prices of an evaluator call are only compared with
\* each other; they are written in whole currency units
PriceThresholds == {None, 0, 80}
PercentageThresholds == {None, 0, 20, 30}

Subscription(type, product_id, brand_name, price_threshold, percentage_threshold) ==
    [subscription_type |-> type, product_id |-> product_id, brand_name |-> brand_name,
     price_threshold |-> price_threshold,
     percentage_threshold |-> percentage_threshold, is_active |-> TRUE]

SubscriptionIds == 1..Len(subscriptions)

\* a request without product_url
NoUrl == "no url"

\* Python truthiness of an Optional string: None and "" are false
TruthyStr(x) == x \notin {NoBrand, ""}

\* a validator that lets every target through
validate_subscription_target_skipped(type, product_id, product_url, brand_name) == TRUE

\* SubscriptionCreate.validate_subscription_target
validate_subscription_target(type, product_id, product_url, brand_name) ==
    IF type = "product"
    THEN /\ Truthy(product_id) \/ product_url # NoUrl
         /\ ~TruthyStr(brand_name)
    ELSE /\ TruthyStr(brand_name)
         /\ ~(Truthy(product_id) \/ product_url # NoUrl)

\* SubscriptionCreate.at_least_one_threshold
at_least_one_threshold(price_threshold, percentage_threshold) ==
    Truthy(price_threshold) \/ Truthy(percentage_threshold)

\* create_subscription, lines 27-38: the product_id of a product
\* subscription; 0 stands for the ValueError "Product not found"
resolve_product_id(product_id, product_url) ==
    IF product_url # NoUrl /\ ~Truthy(product_id)
    THEN get_by_url(product_url)
    ELSE product_id

\* SubscriptionService.create_subscription: the row it adds
create_subscription(type, product_id, product_url, brand_name, price_threshold, percentage_threshold) ==
    IF type = "product"
    THEN Subscription(type, resolve_product_id(product_id, product_url), NoBrand,
                      price_threshold, percentage_threshold)
    ELSE Subscription(type, None, brand_name, price_threshold, percentage_threshold)

\* POST /subscriptions; subscriptions.product_id is a nullable foreign key
\* to products.id
CreateSubscription(type, product_id, product_url, brand_name, price_threshold, percentage_threshold) ==
    LET row == create_subscription(type, product_id, product_url, brand_name,
                                   price_threshold, percentage_threshold)
    IN  /\ Len(subscriptions) < MaxSubscriptions
        /\ validate_subscription_target(type, product_id, product_url, brand_name)
        /\ at_least_one_threshold(price_threshold, percentage_threshold)
        /\ row.product_id # 0
        /\ row.product_id # None => row.product_id \in ProductIds
        /\ subscriptions' = Append(subscriptions, row)
        /\ UNCHANGED <<dispatch, scans, session, ebay, parse, race, fetch, storeVars, upstream, task, notifications, lastCall,
                       prevScan, quiet>>

\* SubscriptionService.update: setattr for the fields the request set
update_subscription(sid, setPrice, price_threshold, setPercentage, percentage_threshold, setActive, is_active) ==
    [subscriptions EXCEPT
        ![sid].price_threshold = IF setPrice THEN price_threshold ELSE @,
        ![sid].percentage_threshold = IF setPercentage THEN percentage_threshold ELSE @,
        ![sid].is_active = IF setActive THEN is_active ELSE @]

\* PATCH /subscriptions/{id}: the row need not be active
UpdateSubscription(sid, setPrice, price_threshold, setPercentage, percentage_threshold, setActive, is_active) ==
    /\ sid \in SubscriptionIds
    /\ subscriptions' = update_subscription(sid, setPrice, price_threshold,
                                            setPercentage, percentage_threshold,
                                            setActive, is_active)
    /\ UNCHANGED <<dispatch, scans, session, ebay, parse, race, fetch, storeVars, upstream, task, notifications, lastCall, prevScan, quiet>>

\* GET /subscriptions/{id}: the status code of the answer
get_subscription(sid) ==
    IF sid \notin SubscriptionIds THEN 404
    ELSE IF ~subscriptions[sid].is_active THEN 404
    ELSE 200

\* SubscriptionService.delete: a soft delete
delete(sid) == [subscriptions EXCEPT ![sid].is_active = FALSE]

\* DELETE /subscriptions/{id}
DeleteSubscription(sid) ==
    /\ sid \in SubscriptionIds
    /\ subscriptions' = delete(sid)
    /\ UNCHANGED <<dispatch, scans, session, ebay, parse, race, fetch, storeVars, upstream, task, notifications, lastCall, prevScan, quiet>>

\* a lookup that forgets the is_active filter
get_subscriptions_for_product_unfiltered(product_id) ==
    {s \in SubscriptionIds : subscriptions[s].product_id = product_id}

get_subscriptions_for_product(product_id) ==
    {s \in SubscriptionIds :
        subscriptions[s].product_id = product_id /\ subscriptions[s].is_active}
get_subscriptions_for_brand(brand_name) ==
    {s \in SubscriptionIds :
        /\ subscriptions[s].brand_name = brand_name
        /\ subscriptions[s].subscription_type = "brand"
        /\ subscriptions[s].is_active}

\* the rows of a SELECT without ORDER BY, in any order
Orders(rows) == {s \in [1..Cardinality(rows) -> rows] : IsInjective(s)}

----------------------------------------------------------------------------
(* The notification evaluator (worker/tasks/scraper.py) *)

\* a guard that only looks for an old price
price_dropped_unguarded(old_price, new_price) == Truthy(old_price)

\* the negation of "if not old_price or new_price >= old_price: return"
price_dropped(old_price, new_price) == Truthy(old_price) /\ new_price < old_price

\* the if/elif of the loop body: the notification_type, or "none" when
\* should_notify stays False.  price_drop_percent >= percentage_threshold
\* is compared without the division.
notification_type(sub, old_price, new_price) ==
    IF Truthy(sub.price_threshold) /\ new_price <= sub.price_threshold
    THEN "price_threshold"
    ELSE IF /\ Truthy(sub.percentage_threshold)
            /\ (old_price - new_price) * 100 >= sub.percentage_threshold * old_price
    THEN "price_drop"
    ELSE "none"

\* NotificationService.create_notification: the row it adds
Notification(sid, product_id, type) ==
    [subscription_id |-> sid, product_id |-> product_id,
     notification_type |-> type, status |-> "pending"]

\* a pass with two independent tests instead of if/elif
notify_each_threshold(sid, product_id, old_price, new_price) ==
    LET sub == subscriptions[sid]
    IN  (IF Truthy(sub.price_threshold) /\ new_price <= sub.price_threshold
         THEN <<[subscription_id |-> sid, product_id |-> product_id,
                 notification_type |-> "price_threshold", status |-> "pending"]>>
         ELSE <<>>)
        \o
        (IF /\ Truthy(sub.percentage_threshold)
            /\ (old_price - new_price) * 100 >= sub.percentage_threshold * old_price
         THEN <<[subscription_id |-> sid, product_id |-> product_id,
                 notification_type |-> "price_drop", status |-> "pending"]>>
         ELSE <<>>)

\* one pass of "for subscription in subscriptions"
notify(sid, product_id, old_price, new_price) ==
    LET type == notification_type(subscriptions[sid], old_price, new_price)
    IN  IF type = "none" THEN <<>> ELSE <<Notification(sid, product_id, type)>>

RECURSIVE notify_all(_, _, _, _)
notify_all(sids, product_id, old_price, new_price) ==
    IF sids = <<>> THEN <<>>
    ELSE notify(Head(sids), product_id, old_price, new_price)
             \o notify_all(Tail(sids), product_id, old_price, new_price)

\* the subscription rows a call loaded
LoadedSubscriptions(sids) ==
    [k \in 1..Len(sids) |->
        [id |-> sids[k],
         price_threshold |-> subscriptions[sids[k]].price_threshold,
         percentage_threshold |-> subscriptions[sids[k]].percentage_threshold]]

\* the body shared by check_price_drop_notifications and
\* check_brand_notifications, which differ in the lookup
check_notifications(fn, rows, product_id, old_price, new_price) ==
    /\ lastCall.n < MaxCalls
    /\ product_id \in ProductIds
    /\ IF price_dropped(old_price, new_price)
       THEN \E sids \in Orders(rows) :
               LET created == notify_all(sids, product_id, old_price, new_price)
               IN  /\ Len(notifications) + Len(created) <= MaxNotifications
                   /\ notifications' = notifications \o created
                   /\ lastCall' = [n |-> lastCall.n + 1, fn |-> fn,
                                   product_id |-> product_id,
                                   old_price |-> old_price, new_price |-> new_price,
                                   subs |-> LoadedSubscriptions(sids),
                                   first |-> Len(notifications) + 1]
       ELSE /\ notifications' = notifications
            /\ lastCall' = [n |-> lastCall.n + 1, fn |-> fn,
                            product_id |-> product_id,
                            old_price |-> old_price, new_price |-> new_price,
                            subs |-> <<>>, first |-> Len(notifications) + 1]
    /\ UNCHANGED <<dispatch, scans, session, ebay, parse, race, fetch, storeVars, upstream, task, subscriptions, prevScan, quiet>>

check_price_drop_notifications(product_id, old_price, new_price) ==
    check_notifications("check_price_drop_notifications",
                        get_subscriptions_for_product(product_id),
                        product_id, old_price, new_price)

check_brand_notifications(brand_name, product_id, old_price, new_price) ==
    check_notifications("check_brand_notifications",
                        get_subscriptions_for_brand(brand_name),
                        product_id, old_price, new_price)

\* the old price of a call: absent, zero, or a price
OldPrices == {None, 0, 75, 100}

\* the new price of a call: a price a scan took as changed, so neither
\* null nor zero
NewPrices == {75, 90}

NextEval ==
    \/ CreateProduct(U_EBAY, "acme", 2, "USD")
    \/ \E type \in {"product", "brand"}, product_id \in {None, 0, 1},
          product_url \in {NoUrl, U_EBAY_VAR},
          brand_name \in {NoBrand, "", "acme"},
          price_threshold \in PriceThresholds,
          percentage_threshold \in PercentageThresholds :
          CreateSubscription(type, product_id, product_url, brand_name,
                             price_threshold, percentage_threshold)
    \/ \E sid \in 1..MaxSubscriptions :
          \/ UpdateSubscription(sid, TRUE, None, FALSE, None, FALSE, TRUE)
          \/ UpdateSubscription(sid, FALSE, None, TRUE, None, FALSE, TRUE)
          \/ UpdateSubscription(sid, FALSE, None, FALSE, None, TRUE, TRUE)
    \/ \E sid \in 1..MaxSubscriptions : DeleteSubscription(sid)
    \/ \E old_price \in OldPrices, new_price \in NewPrices :
          check_price_drop_notifications(1, old_price, new_price)
    \/ \E old_price \in OldPrices, new_price \in NewPrices :
          check_brand_notifications("acme", 1, old_price, new_price)

SpecEval == Init /\ [][NextEval]_vars

----------------------------------------------------------------------------
(* The product store on its own: the requests of the product API and the   *)
(* ProductService calls of the scan tasks, with any arguments              *)

\* await product_service.update_price(product.id, price, currency)
UpdatePrice(pid, new_price, currency) ==
    /\ pid \in ProductIds
    /\ Len(history) < MaxHistory
    /\ products' = update_price_products(pid, new_price, currency)
    /\ history' = update_price_history(pid, new_price, currency)
    /\ UNCHANGED <<dispatch, scans, session, ebay, parse, race, fetch, now, upstream, task, evalVars, prevScan, quiet>>

\* await product_service.mark_as_scraped(product.id)
MarkAsScraped(pid) ==
    /\ pid \in ProductIds
    /\ now < MaxClock
    /\ products' = mark_as_scraped(products, pid)
    /\ now' = now + 1
    /\ UNCHANGED <<dispatch, scans, session, ebay, parse, race, fetch, history, upstream, task, evalVars, prevScan, quiet>>

\* await product_service.get_products_for_scraping(limit=limit)
SelectForScraping(limit) ==
    /\ task.kind = "idle"
    /\ \E s \in get_products_for_scraping(limit) :
          task' = [IdleTask EXCEPT
                      !.kind = "select", !.pc = "returned", !.limit = limit,
                      !.sel = [i \in 1..Len(s) |-> Loaded(s[i])]]
    /\ UNCHANGED <<dispatch, scans, session, ebay, parse, race, fetch, storeVars, upstream, evalVars, prevScan, quiet>>

NextStore ==
    \/ \E url \in Urls, price \in {None, 0, 2, 3}, currency \in {"USD", "JPY"} :
          CreateProduct(url, NoBrand, price, currency)
    \/ \E pid \in 1..MaxProducts, price \in {None, 4} :
          UpdateProduct(pid, TRUE, price, FALSE, FALSE)
    \/ \E pid \in 1..MaxProducts, active \in BOOLEAN :
          UpdateProduct(pid, FALSE, None, TRUE, active)
    \/ \E pid \in 1..MaxProducts, price \in {3, 4}, currency \in {"USD", "EUR"} :
          UpdatePrice(pid, price, currency)

SpecStore == Init /\ [][NextStore]_vars

\* the selection of products to scan, over tables of active and inactive,
\* scanned and never-scanned products
NextSelect ==
    \/ \E url \in Urls : CreateProduct(url, NoBrand, 2, "USD")
    \/ \E pid \in 1..MaxProducts, active \in BOOLEAN :
          UpdateProduct(pid, FALSE, None, TRUE, active)
    \/ \E pid \in 1..MaxProducts : MarkAsScraped(pid)
    \/ \E limit \in 0..MaxProducts : SelectForScraping(limit)
    \/ TaskEnd

SpecSelect == Init /\ [][NextSelect]_vars

----------------------------------------------------------------------------
(* Two sessions at once: single-URL scans and product creations that       *)
(* interleave at their database statements.  A session reads committed     *)
(* rows only; products.url carries the unique index ix_products_url.       *)

\* a session between its statements
Worker(pc, op, url, existing, price, currency, store_name, product_id, error) ==
    [pc |-> pc, op |-> op, url |-> url, existing |-> existing, price |-> price,
     currency |-> currency, store_name |-> store_name, product_id |-> product_id,
     error |-> error]

\* async_scrape_single_product, lines 181-187: look the URL up, resolve the
\* adapter and scrape; POST /products goes straight to ProductService.create
race_start(op, url) ==
    IF op = "create"
    THEN Worker("create", op, url, NoRow, 4, "USD", "store", 0, "")
    ELSE LET pid == get_by_url(url)
             scraper == get_scraper_for_url(url)
             scraped == scrape_product(url)
         IN  IF scraper = NoScraper
             THEN Worker("raised", op, url, NoRow, None, "USD", "", 0, "ValueError")
             ELSE IF scraped.error
             THEN Worker("raised", op, url, NoRow, None, "USD", scraper, 0, "ScraperError")
             ELSE Worker(IF pid # 0 THEN "update" ELSE "create", op, url,
                         IF pid # 0 THEN Loaded(pid) ELSE NoRow,
                         scraped.price, scraped.currency, scraper, pid, "")

RaceStart(w, op, url) ==
    /\ race[w].pc = "idle"
    /\ race' = [race EXCEPT ![w] = race_start(op, url)]
    /\ UNCHANGED <<dispatch, scans, session, ebay, parse, fetch, storeVars, upstream, task, evalVars, prevScan, quiet>>

\* lines 191-205 of the scan: the product was there at the lookup
RaceUpdate(w) ==
    LET me == race[w]
        pid == me.existing.id
    IN  /\ me.pc = "update"
        /\ now < MaxClock
        /\ IF price_changed(me, me.existing.current_price)
           THEN /\ Len(history) < MaxHistory
                /\ products' = mark_as_scraped(
                       update_price_products(pid, me.price, me.currency), pid)
                /\ history' = update_price_history(pid, me.price, me.currency)
           ELSE /\ products' = mark_as_scraped(products, pid)
                /\ history' = history
        /\ now' = now + 1
        /\ race' = [race EXCEPT ![w].pc = "returned"]
        /\ UNCHANGED <<dispatch, scans, session, ebay, parse, fetch, upstream, task, evalVars, prevScan, quiet>>

\* ProductService.create, lines 29-59: normalise, look the URL up, validate
RaceCheck(w) ==
    LET me == race[w]
        outcome == create_outcome(me.url, me.price, me.currency, me.store_name)
    IN  /\ me.pc = "create"
        /\ race' = [race EXCEPT
               ![w].pc = CASE outcome = "ok" -> "insert"
                           [] outcome = "existing" ->
                                  IF me.op = "scan" THEN "mark" ELSE "returned"
                           [] OTHER -> "raised",
               ![w].product_id = IF outcome = "existing" THEN get_by_url(me.url) ELSE 0,
               ![w].error = IF outcome \in {"ok", "existing"} THEN "" ELSE outcome]
        /\ UNCHANGED <<dispatch, scans, session, ebay, parse, fetch, storeVars, upstream, task, evalVars, prevScan, quiet>>

\* the sessions that hold an uncommitted row with this URL
Pending(url) == {v \in Workers : race[v].pc = "flushed" /\ Normalize(race[v].url) = url}

\* an INSERT without a unique index on the column
unique_violation_unindexed(url) == FALSE

\* the unique index on products.url: a committed row has the value
unique_violation(url) == \E p \in ProductIds : products[p].url = url

\* lines 62-64: session.add(product), flush.  The INSERT waits while another
\* session holds an uncommitted row with the same URL, and fails with
\* IntegrityError when a committed row has it.
RaceFlush(w) ==
    LET me == race[w]
    IN  /\ me.pc = "insert"
        /\ unique_violation(Normalize(me.url)) \/ Pending(Normalize(me.url)) = {}
        /\ race' = [race EXCEPT
               ![w].pc = IF unique_violation(Normalize(me.url))
                         THEN "raised" ELSE "flushed",
               ![w].error = IF unique_violation(Normalize(me.url))
                            THEN "IntegrityError" ELSE ""]
        /\ UNCHANGED <<dispatch, scans, session, ebay, parse, fetch, storeVars, upstream, task, evalVars, prevScan, quiet>>

\* lines 65-75: the price history row and the commit
RaceCommit(w) ==
    LET me == race[w]
    IN  /\ me.pc = "flushed"
        /\ Len(products) < MaxProducts
        /\ Len(history) < MaxHistory
        /\ products' = Append(products,
                              Product(Normalize(me.url), "acme", me.price, me.currency))
        /\ history' = Append(history,
                             PriceHistory(Len(products) + 1, me.price, me.currency))
        /\ race' = [race EXCEPT
               ![w].pc = IF me.op = "scan" THEN "mark" ELSE "returned",
               ![w].product_id = Len(products) + 1]
        /\ UNCHANGED <<dispatch, scans, session, ebay, parse, fetch, now, upstream, task, evalVars, prevScan, quiet>>

\* line 222 of the scan: mark_as_scraped(new_product.id)
RaceMark(w) ==
    LET me == race[w]
    IN  /\ me.pc = "mark"
        /\ now < MaxClock
        /\ products' = mark_as_scraped(products, me.product_id)
        /\ now' = now + 1
        /\ race' = [race EXCEPT ![w].pc = "returned"]
        /\ UNCHANGED <<dispatch, scans, session, ebay, parse, fetch, history, upstream, task, evalVars, prevScan, quiet>>

\* the session is closed
RaceEnd(w) ==
    /\ race[w].pc \in {"returned", "raised"}
    /\ race' = [race EXCEPT ![w] = IdleWorker]
    /\ UNCHANGED <<dispatch, scans, session, ebay, parse, fetch, storeVars, upstream, task, evalVars, prevScan, quiet>>

\* the URLs of the concurrent requests: one listing in three spellings, and
\* another listing
RaceUrls == {U_EBAY, U_EBAY_VAR, U_EBAY_UPPER, U_ETSY}

NextRace ==
    \/ \E w \in Workers, op \in {"scan", "create"}, url \in RaceUrls :
          RaceStart(w, op, url)
    \/ \E w \in Workers : RaceUpdate(w)
    \/ \E w \in Workers : RaceCheck(w)
    \/ \E w \in Workers : RaceFlush(w)
    \/ \E w \in Workers : RaceCommit(w)
    \/ \E w \in Workers : RaceMark(w)
    \/ \E w \in Workers : RaceEnd(w)

SpecRace == Init /\ [][NextRace]_vars

----------------------------------------------------------------------------
(* Price text parsing: BaseScraper.parse_price (scrapers/base.py).  A text *)
(* is a sequence of characters.                                            *)

Digits == {"0", "1", "2", "3", "4", "5", "6", "7", "8", "9"}

Whitespace == {" ", "\n"}

\* the characters of the texts tried
Chars == {"$", "€", "1", "2", ",", ".", "x", " ", "\n"}

Texts == UNION {[1..n -> Chars] : n \in 0..MaxLen}

\* currency_map, in the order of the dict
currency_map == <<[symbol |-> "$", code |-> "USD"], [symbol |-> "€", code |-> "EUR"],
                  [symbol |-> "£", code |-> "GBP"], [symbol |-> "¥", code |-> "JPY"],
                  [symbol |-> "₽", code |-> "RUB"]>>

\* str.strip()
RECURSIVE lstrip(_)
lstrip(t) == IF t # <<>> /\ Head(t) \in Whitespace THEN lstrip(Tail(t)) ELSE t

RECURSIVE rstrip(_)
rstrip(t) ==
    IF t # <<>> /\ t[Len(t)] \in Whitespace THEN rstrip(SubSeq(t, 1, Len(t) - 1)) ELSE t

strip(t) == rstrip(lstrip(t))

\* str.replace(old, new) for a single character; new = "" removes it
replace(t, old, new) ==
    IF new = "" THEN SelectSeq(t, LAMBDA c : c # old)
    ELSE [i \in 1..Len(t) |-> IF t[i] = old THEN new ELSE t[i]]

\* a cleaning that keeps the commas
clean_keeping_commas(price_text) == replace(strip(price_text), "\n", " ")

\* price_text.strip().replace(",", "").replace("\n", " ")
clean(price_text) == replace(replace(strip(price_text), ",", ""), "\n", " ")

\* "for symbol, code in currency_map.items(): if symbol in price_text":
\* the index of the first entry whose symbol is in the text, or 0
find_symbol(t) ==
    LET present == {k \in 1..Len(currency_map) :
                       \E i \in 1..Len(t) : t[i] = currency_map[k].symbol}
    IN  IF present = {} THEN 0 ELSE CHOOSE k \in present : \A j \in present : k <= j

\* the end of the run of digits that starts at i (i - 1 when there is none)
RECURSIVE digits_end(_, _)
digits_end(t, i) ==
    IF i <= Len(t) /\ t[i] \in Digits THEN digits_end(t, i + 1) ELSE i - 1

\* re.search(r"(\d+\.?\d*)", text): group 1 of the leftmost match, greedy,
\* or <<>> when nothing matches
RECURSIVE re_search(_)
re_search(t) ==
    IF t = <<>> THEN <<>>
    ELSE IF Head(t) \in Digits
    THEN LET a == digits_end(t, 1)
             b == IF a < Len(t) /\ t[a + 1] = "." THEN digits_end(t, a + 2) ELSE a
         IN  SubSeq(t, 1, b)
    ELSE re_search(Tail(t))

\* int() of a run of digits
RECURSIVE to_int(_)
to_int(ds) ==
    IF ds = <<>> THEN 0
    ELSE 10 * to_int(SubSeq(ds, 1, Len(ds) - 1))
            + (CHOOSE d \in 0..9 : ToString(d) = ds[Len(ds)])

\* a Decimal value, and the two things that stand where one is expected
DecimalOf(coefficient, exponent) ==
    [kind |-> "Decimal", coefficient |-> coefficient, exponent |-> exponent]

NullPrice == [kind |-> "None", coefficient |-> 0, exponent |-> 0]

InvalidOperation == [kind |-> "InvalidOperation", coefficient |-> 0, exponent |-> 0]

\* Decimal(text): coefficient and exponent, or InvalidOperation for a text
\* that is not digits with at most one decimal point
Decimal(ds) ==
    LET points == {i \in 1..Len(ds) : ds[i] = "."}
        digits == SelectSeq(ds, LAMBDA c : c # ".")
    IN  IF \/ digits = <<>>
           \/ Cardinality(points) > 1
           \/ \E i \in 1..Len(digits) : digits[i] \notin Digits
        THEN InvalidOperation
        ELSE DecimalOf(to_int(digits),
                       IF points = {} THEN 0
                       ELSE 0 - (Len(ds) - (CHOOSE i \in points : TRUE)))

\* parse_price(price_text); only ValueError and TypeError of the conversion
\* are caught
parse_price(price_text) ==
    IF price_text = <<>> THEN Returned(NullPrice, "USD")
    ELSE LET cleaned == clean(price_text)
             k == find_symbol(cleaned)
             currency == IF k = 0 THEN "USD" ELSE currency_map[k].code
             text == IF k = 0 THEN cleaned
                     ELSE strip(replace(cleaned, currency_map[k].symbol, ""))
             price_match == re_search(text)
         IN  IF price_match = <<>> THEN Returned(NullPrice, currency)
             ELSE IF Decimal(price_match) = InvalidOperation
             THEN [raised |-> "InvalidOperation", price |-> NullPrice, currency |-> currency]
             ELSE Returned(Decimal(price_match), currency)

\* an adapter parses a price text
ParsePrice(price_text) ==
    /\ parse.pc = "idle"
    /\ parse' = [pc |-> "done", text |-> price_text, result |-> parse_price(price_text)]
    /\ UNCHANGED <<dispatch, scans, session, ebay, race, fetch, storeVars, upstream, task, evalVars, prevScan, quiet>>

\* the adapter has the result
ParseEnd ==
    /\ parse.pc = "done"
    /\ parse' = NoParse
    /\ UNCHANGED <<dispatch, scans, session, ebay, race, fetch, storeVars, upstream, task, evalVars, prevScan, quiet>>

NextParse ==
    \/ \E price_text \in Texts : ParsePrice(price_text)
    \/ ParseEnd

SpecParse == Init /\ [][NextParse]_vars

----------------------------------------------------------------------------
(* The credential cache of the eBay adapter: EbayScraper.get_access_token  *)
(* (scrapers/ebay.py).  Times are in seconds; a token is named by the      *)
(* number of the request that obtained it; expires is the instant the      *)
(* token endpoint said the cached token expires at.                        *)

\* time.time() moves on
TickSeconds == 150

\* the safety margin of line 79
SafetyMargin == 300

\* what the token endpoint answers: an error status, a body without
\* "expires_in", or a token that lives expires_in seconds
TokenOutcomes ==
    {[status |-> 500, expires_in |-> None], [status |-> 200, expires_in |-> None]}
        \cup {[status |-> 200, expires_in |-> e] : e \in {150, 450, 900}}

\* an expiry without the safety margin
token_expiry_no_margin(time, expires_in) == time + expires_in

\* time.time() + token_data["expires_in"] - 300
token_expiry(time, expires_in) == time + expires_in - SafetyMargin

\* "if self.access_token and self.token_expires_at and
\*  time.time() < self.token_expires_at"
token_valid(e) ==
    /\ e.access_token # None
    /\ Truthy(e.token_expires_at)
    /\ e.clock < e.token_expires_at

\* get_access_token, one call
get_access_token(e, outcome) ==
    IF token_valid(e)
    THEN [e EXCEPT !.pc = "done", !.served = e.access_token, !.cached = TRUE,
                   !.raised = ""]
    ELSE IF outcome.status # 200
    THEN [e EXCEPT !.pc = "done", !.requests = @ + 1, !.served = None,
                   !.cached = FALSE, !.raised = "HTTPStatusError"]
    ELSE IF outcome.expires_in = None
    THEN [e EXCEPT !.pc = "done", !.requests = @ + 1, !.served = None,
                   !.cached = FALSE, !.raised = "KeyError",
                   !.access_token = e.requests + 1, !.expires = None]
    ELSE [e EXCEPT !.pc = "done", !.requests = @ + 1,
                   !.access_token = e.requests + 1,
                   !.token_expires_at = token_expiry(e.clock, outcome.expires_in),
                   !.expires = e.clock + outcome.expires_in,
                   !.served = e.requests + 1, !.cached = FALSE, !.raised = ""]

GetAccessToken(outcome) ==
    /\ ebay.pc = "idle"
    /\ ebay.requests < MaxTokens
    /\ ebay' = get_access_token(ebay, outcome)
    /\ UNCHANGED <<dispatch, scans, session, parse, race, fetch, storeVars, upstream, task, evalVars, prevScan, quiet>>

\* scrape_product goes on with the token, or the exception propagates
TokenEnd ==
    /\ ebay.pc = "done"
    /\ ebay' = [ebay EXCEPT !.pc = "idle"]
    /\ UNCHANGED <<dispatch, scans, session, parse, race, fetch, storeVars, upstream, task, evalVars, prevScan, quiet>>

Tick ==
    /\ ebay.clock < MaxTime
    /\ ebay' = [ebay EXCEPT !.clock = @ + TickSeconds]
    /\ UNCHANGED <<dispatch, scans, session, parse, race, fetch, storeVars, upstream, task, evalVars, prevScan, quiet>>

NextToken ==
    \/ \E outcome \in TokenOutcomes : GetAccessToken(outcome)
    \/ TokenEnd
    \/ Tick

SpecToken == Init /\ [][NextToken]_vars

----------------------------------------------------------------------------
(* The HTTP clients of a scan: BaseScraper._ensure_client, __aenter__ and  *)
(* __aexit__ (scrapers/base.py), as "async with scraper:" of the scan      *)
(* tasks uses them                                                         *)

\* _ensure_client: create the client when there is none
ensure_client(clients, a) ==
    IF clients[a].open THEN clients
    ELSE [clients EXCEPT ![a] = [open |-> TRUE, managed |-> FALSE]]

\* __aenter__
aenter(clients, a) == [ensure_client(clients, a) EXCEPT ![a].managed = TRUE]

\* __aexit__: close the client the context manager manages
aexit(clients, a) ==
    IF clients[a].open /\ clients[a].managed
    THEN [clients EXCEPT ![a] = NoClient]
    ELSE clients

\* the adapter whose make_request (or client.post) a scrape_product goes
\* through: DemoScraper delegates to its helper
requester(scraper) == IF scraper = "demo" THEN "demo._webscraper_helper" ELSE scraper

\* scraper = get_scraper_for_url(product.url); async with scraper:
ScanEnter(url) ==
    /\ session.pc = "idle"
    /\ LET scraper == get_scraper_for_url(url)
       IN  session' = IF scraper = NoScraper
                      THEN [session EXCEPT !.pc = "raised", !.url = url,
                                           !.scraper = scraper, !.error = "ValueError"]
                      ELSE [session EXCEPT !.pc = "entered", !.url = url,
                                           !.scraper = scraper,
                                           !.clients = aenter(@, scraper)]
    /\ UNCHANGED <<dispatch, scans, ebay, parse, race, fetch, storeVars, upstream, task, evalVars, prevScan, quiet>>

\* what scrape_product can raise
ScrapeErrors == {"ValueError", "HTTPStatusError", "RequestError", "Exception"}

\* scrape_product: the requests go through self.client of the requesting
\* adapter; it returns (error = "") or raises
ScanScrape(error) ==
    /\ session.pc = "entered"
    /\ session' = [session EXCEPT
           !.pc = IF error = "" THEN "scraped" ELSE "failed",
           !.error = error,
           !.clients = ensure_client(@, requester(session.scraper))]
    /\ UNCHANGED <<dispatch, scans, ebay, parse, race, fetch, storeVars, upstream, task, evalVars, prevScan, quiet>>

\* the end of "async with scraper:", on return and on an exception
ScanExit ==
    /\ session.pc \in {"scraped", "failed"}
    /\ session' = [session EXCEPT
           !.pc = IF session.pc = "scraped" THEN "returned" ELSE "raised",
           !.clients = aexit(@, session.scraper)]
    /\ UNCHANGED <<dispatch, scans, ebay, parse, race, fetch, storeVars, upstream, task, evalVars, prevScan, quiet>>

\* the scan of the product is over
ScanEnd ==
    /\ session.pc \in {"returned", "raised"}
    /\ session' = [session EXCEPT !.pc = "idle", !.url = "", !.scraper = "", !.error = ""]
    /\ UNCHANGED <<dispatch, scans, ebay, parse, race, fetch, storeVars, upstream, task, evalVars, prevScan, quiet>>

NextSession ==
    \/ \E url \in ScanUrls : ScanEnter(url)
    \/ \E error \in {""} \cup ScrapeErrors : ScanScrape(error)
    \/ ScanExit
    \/ ScanEnd

SpecSession == Init /\ [][NextSession]_vars

----------------------------------------------------------------------------
(* The periodic scan under its schedule: celery beat starts a batch every  *)
(* interval, and a started batch runs to its end                           *)

NextStarve ==
    \/ \E url \in {U_EBAY, U_ETSY, U_EXAMPLE} : CreateProduct(url, "acme", 2, "USD")
    \/ \E v \in {ScrapeError, Listing(2, "USD")} : UpstreamChange(U_EBAY, v)
    \/ BatchStart
    \/ BatchStep
    \/ LoopReturn
    \/ TaskEnd

SpecStarve ==
    /\ Init
    /\ [][NextStarve]_vars
    /\ WF_vars(BatchStart)
    /\ WF_vars(BatchStep)
    /\ WF_vars(LoopReturn)
    /\ WF_vars(TaskEnd)

----------------------------------------------------------------------------
(* Scan tasks at the same time on one product: each loads the product row  *)
(* in its own session, scrapes, and persists; the statements of different  *)
(* tasks interleave                                                        *)

\* the product all of them scan
Shared == 1

\* the marketplace changes the price of the item
MarketChange(v) ==
    /\ scans.changes < MaxChanges
    /\ upstream[U_EBAY] # v
    /\ upstream' = [upstream EXCEPT ![U_EBAY] = v]
    /\ scans' = [scans EXCEPT !.changes = @ + 1]
    /\ UNCHANGED <<dispatch, session, ebay, parse, race, fetch, storeVars, task, evalVars, prevScan, quiet>>

\* the task reads the product row: get_products_for_scraping (line 53),
\* list_products (line 283) or get_by_url (line 181)
ScanLoad(k) ==
    /\ scans.tasks[k].pc = "idle"
    /\ Shared \in ProductIds
    /\ products[Shared].is_active
    /\ scans' = [scans EXCEPT !.tasks[k] = [IdleScan EXCEPT !.pc = "loaded",
                                                        !.loaded = Loaded(Shared)]]
    /\ UNCHANGED <<dispatch, session, ebay, parse, race, fetch, storeVars, upstream, task, evalVars, prevScan, quiet>>

\* scraped_data = await scraper.scrape_product(product.url); an exception
\* ends the scan of the product
ScanFetch(k) ==
    /\ scans.tasks[k].pc = "loaded"
    /\ LET scraped == scrape_product(products[Shared].url)
       IN  scans' = [scans EXCEPT !.tasks[k] =
                        IF scraped.error THEN IdleScan
                        ELSE [@ EXCEPT !.pc = "scraped", !.price = scraped.price,
                                       !.currency = scraped.currency]]
    /\ UNCHANGED <<dispatch, session, ebay, parse, race, fetch, storeVars, upstream, task, evalVars, prevScan, quiet>>

\* the comparison with the loaded price, update_price and mark_as_scraped
ScanPersist(k) ==
    LET me == scans.tasks[k]
    IN  /\ me.pc = "scraped"
        /\ IF price_changed(me, me.loaded.current_price)
           THEN /\ Len(history) < MaxHistory
                /\ products' = mark_as_scraped(
                       update_price_products(Shared, me.price, me.currency), Shared)
                /\ history' = update_price_history(Shared, me.price, me.currency)
           ELSE /\ products' = mark_as_scraped(products, Shared)
                /\ history' = history
        /\ now' = IF now < MaxClock THEN now + 1 ELSE now
        /\ scans' = [scans EXCEPT !.tasks[k] = IdleScan]
        /\ UNCHANGED <<dispatch, session, ebay, parse, race, fetch, upstream, task, evalVars, prevScan, quiet>>

NextConcurrent ==
    \/ CreateProduct(U_EBAY, "acme", 2, "USD")
    \/ \E v \in {Listing(2, "USD"), Listing(4, "USD")} : MarketChange(v)
    \/ \E k \in Scanners : ScanLoad(k)
    \/ \E k \in Scanners : ScanFetch(k)
    \/ \E k \in Scanners : ScanPersist(k)

SpecConcurrent == Init /\ [][NextConcurrent]_vars

----------------------------------------------------------------------------
(* The notification dispatcher: async_process_pending_notifications        *)
(* (worker/tasks/notifications.py) and NotificationService                 *)

\* the limit of the fetch of a run
DispatchLimit == 50

NotificationIds == 1..Len(notifications)

\* NotificationService.create_notification: a PENDING row
create_notification(subscription_id, product_id, type) ==
    Append(notifications, Notification(subscription_id, product_id, type))

CreateNotification(product_id, type) ==
    /\ Len(notifications) < MaxNotifications
    /\ notifications' = create_notification(1, product_id, type)
    /\ UNCHANGED <<dispatch, scans, session, ebay, parse, race, fetch, storeVars, upstream, task,
                   subscriptions, lastCall, prevScan, quiet>>

\* get_pending_notifications(limit): the PENDING rows by created_at
get_pending_notifications(limit) ==
    LET pending == SelectSeq([n \in NotificationIds |-> n],
                             LAMBDA n : notifications[n].status = "pending")
    IN  SubSeq(pending, 1, Min(limit, Len(pending)))

\* mark_as_failed: the status is set whatever it was
mark_as_failed(rows, n) == [rows EXCEPT ![n].status = "failed"]

\* mark_as_sent: the status is set whatever it was
mark_as_sent(rows, n) == [rows EXCEPT ![n].status = "sent"]

\* line 70: the run fetches the pending notifications
DispatchStart(r) ==
    /\ dispatch.runs[r].pc = "idle"
    /\ dispatch' = [dispatch EXCEPT !.runs[r] =
           [IdleRun EXCEPT !.pc = "loop", !.i = 1,
                           !.fetched = get_pending_notifications(DispatchLimit)]]
    /\ UNCHANGED <<scans, session, ebay, parse, race, fetch, storeVars, upstream, task, evalVars,
                   prevScan, quiet>>

\* what the body of the loop meets: no linked user, an exception, or the
\* send_* function, which returns a message id when the product exists and
\* None when it does not (or when sending raised)
StepOutcomes(n) ==
    {"no_user", "exception", "no_message"}
        \cup (IF notifications[n].product_id \in ProductIds THEN {"message"} ELSE {})

\* lines 76-130: one pass of "for notification in notifications"
DispatchStep(r, outcome) ==
    LET run == dispatch.runs[r]
        n == run.fetched[run.i]
    IN  /\ run.pc = "loop"
        /\ run.i <= Len(run.fetched)
        /\ outcome \in StepOutcomes(n)
        /\ IF outcome = "message"
           THEN /\ notifications' = mark_as_sent(notifications, n)
                /\ dispatch' = [dispatch EXCEPT
                       !.runs[r].i = @ + 1, !.runs[r].sent = @ + 1,
                       !.delivered[n] = @ + 1]
           ELSE /\ notifications' = mark_as_failed(notifications, n)
                /\ dispatch' = [dispatch EXCEPT
                       !.runs[r].i = @ + 1, !.runs[r].failed = @ + 1]
        /\ UNCHANGED <<scans, session, ebay, parse, race, fetch, storeVars, upstream, task,
                       subscriptions, lastCall, prevScan, quiet>>

\* line 133: return {"sent": sent_count, "failed": failed_count}
DispatchReturn(r) ==
    /\ dispatch.runs[r].pc = "loop"
    /\ dispatch.runs[r].i > Len(dispatch.runs[r].fetched)
    /\ dispatch' = [dispatch EXCEPT !.runs[r].pc = "returned"]
    /\ UNCHANGED <<scans, session, ebay, parse, race, fetch, storeVars, upstream, task, evalVars,
                   prevScan, quiet>>

\* the task is over
DispatchEnd(r) ==
    /\ dispatch.runs[r].pc = "returned"
    /\ dispatch' = [dispatch EXCEPT !.runs[r] = IdleRun]
    /\ UNCHANGED <<scans, session, ebay, parse, race, fetch, storeVars, upstream, task, evalVars,
                   prevScan, quiet>>

\* one dispatch run after the other
NextDispatch ==
    \/ CreateProduct(U_EBAY, "acme", 2, "USD")
    \/ \E product_id \in {None, 1}, type \in {"price_drop", "price_threshold"} :
          CreateNotification(product_id, type)
    \/ DispatchStart(1)
    \/ \E outcome \in {"no_user", "exception", "no_message", "message"} :
          DispatchStep(1, outcome)
    \/ DispatchReturn(1)
    \/ DispatchEnd(1)

SpecDispatch == Init /\ [][NextDispatch]_vars

\* dispatch runs that overlap
NextOverlap ==
    \/ CreateProduct(U_EBAY, "acme", 2, "USD")
    \/ \E product_id \in {None, 1}, type \in {"price_drop", "price_threshold"} :
          CreateNotification(product_id, type)
    \/ \E r \in Runs : DispatchStart(r)
    \/ \E r \in Runs, outcome \in {"no_user", "exception", "no_message", "message"} :
          DispatchStep(r, outcome)
    \/ \E r \in Runs : DispatchReturn(r)
    \/ \E r \in Runs : DispatchEnd(r)

SpecOverlap == Init /\ [][NextOverlap]_vars

----------------------------------------------------------------------------
(* Claims on the periodic scan *)

SelectedIds(t) == {t.sel[k].id : k \in 1..Len(t.sel)}

\* the products a task has marked as scraped since it started
MarkedSince(t) == {p \in ProductIds : products[p].last_scraped_at >= t.started}

BatchOver == task.kind = "batch" /\ task.pc # "loop"

\* what the loop scrapes for the product it is at
CurrentId == task.sel[task.i].id
CurrentScrape == scrape_product(products[CurrentId].url)

\* a step of the loop of a scan task that scraped its product
ScrapedStep ==
    /\ task.kind \in {"batch", "brand"}
    /\ task.pc = "loop"
    /\ task'.kind = task.kind
    /\ task'.i = task.i + 1
    /\ task'.errors = task.errors

RowsOf(h, p) == SelectSeq(h, LAMBDA r : r.product_id = p)

\* C1: the periodic scan never raises because of a product: with any subset
\* of the selected products failing (no adapter, or the scrape raises) it
\* returns its {checked, updated} result, and every selected product that
\* did not fail was scraped and marked as scraped
C1_PartialFailureIsolation ==
    /\ task.kind = "batch" => task.pc \in {"loop", "returned"}
    /\ BatchOver =>
          /\ task.errors \subseteq SelectedIds(task)
          /\ SelectedIds(task) \ task.errors \subseteq MarkedSince(task)
          /\ task.checked = Cardinality(SelectedIds(task) \ task.errors)
          /\ task.updated <= task.checked

\* a batch returned although its first product failed, and it scanned the
\* second
C1_Witness ==
    /\ BatchOver
    /\ Len(task.sel) = 2
    /\ task.sel[1].id \in task.errors
    /\ task.sel[2].id \notin task.errors
    /\ task.checked = 1

\* C2: whenever a scan task persists a new price, it calls the Notification
\* Evaluator exactly once, for that product, with the old and the new price
C2_EvaluatedOncePerChange ==
    [][(task' # task /\ Len(history') > Len(history)) =>
          /\ lastCall'.n = lastCall.n + 1
          /\ lastCall'.product_id = history'[Len(history')].product_id]_vars

C6_AdvancedAreTheSelected ==
    BatchOver => MarkedSince(task) = SelectedIds(task)

\* C6: after the periodic scan the products whose last_scraped_at advanced
\* are exactly the selected products whose scan did not fail, whether or not
\* their price changed; a step of the scan leaves every other product's row
\* and price history untouched
C6_MonotonicStaleness ==
    /\ [](BatchOver => MarkedSince(task) = SelectedIds(task) \ task.errors)
    /\ [][(task.kind = "batch" /\ task' # task /\ task.pc = "loop"
              /\ task.i <= Len(task.sel)) =>
            \A p \in ProductIds :
                p # CurrentId =>
                    /\ products'[p] = products[p]
                    /\ RowsOf(history', p) = RowsOf(history, p)]_vars

\* a batch returned that left a third active product alone and advanced a
\* product whose price it did not change
C6_Witness ==
    /\ BatchOver
    /\ task.updated < task.checked
    /\ task.errors # {}
    /\ \E p \in ProductIds \ SelectedIds(task) : products[p].is_active

----------------------------------------------------------------------------
(* Claims on the product store *)

LastPrice(p) ==
    LET rows == RowsOf(history, p)
    IN  IF rows = <<>> THEN None ELSE rows[Len(rows)].price

\* C3: price and history are written together: every product's
\* current_price is the price of its latest PriceSample
C3_PriceMatchesLatestSample ==
    \A p \in ProductIds : products[p].current_price = LastPrice(p)

\* the rows of a selection, as the table has them
SelRow(t, k) == products[t.sel[k].id]

\* strictly staler: never scanned against scanned, or scanned earlier
Staler(a, b) ==
    \/ a.last_scraped_at = NoTime /\ b.last_scraped_at # NoTime
    \/ /\ a.last_scraped_at # NoTime
       /\ b.last_scraped_at # NoTime
       /\ a.last_scraped_at < b.last_scraped_at

Selecting == task.kind = "idle" /\ task'.kind \in {"select", "batch"}

\* C7: get_products_for_scraping(limit) returns only active products, at
\* most limit of them and none twice, never-scanned ones first and the
\* others by last_scraped_at ascending, and leaves out no active product
\* that is staler than one it returns
C7_SelectionForScraping ==
    [][Selecting =>
          LET t == task'
              n == Len(t.sel)
          IN  /\ n <= t.limit
              /\ \A k \in 1..n : SelRow(t, k).is_active
              /\ \A j, k \in 1..n : j < k =>
                     /\ t.sel[j].id # t.sel[k].id
                     /\ ~Staler(SelRow(t, k), SelRow(t, j))
              /\ \A q \in ProductIds \ SelectedIds(t) :
                     products[q].is_active =>
                         /\ n = t.limit
                         /\ \A k \in 1..n : ~Staler(products[q], SelRow(t, k))]_vars

\* a selection of two that holds a never-scanned product before a scanned
\* one, and leaves out a scanned active product and an inactive one
C7_Witness ==
    /\ task.kind = "select"
    /\ Len(task.sel) = 2
    /\ products[task.sel[1].id].last_scraped_at = NoTime
    /\ products[task.sel[2].id].last_scraped_at # NoTime
    /\ \E q \in ProductIds \ SelectedIds(task) :
           products[q].is_active /\ products[q].last_scraped_at # NoTime
    /\ \E q \in ProductIds : ~products[q].is_active

----------------------------------------------------------------------------
(* Claims on the single-URL scan *)

SingleReturns == task.kind = "single" /\ task.pc = "scrape" /\ task'.pc = "returned"

RowsForUrl(prods, url) ==
    {p \in 1..Len(prods) : prods[p].url = Normalize(url)}

\* C5: when async_scrape_single_product returns for a URL for the second
\* time in a row, with nothing else having happened since it returned for
\* that URL, there is exactly one product row for the URL and the second
\* call has appended no PriceSample
C5_SingleScanIdempotent ==
    [][SingleReturns /\ prevScan.url = task.arg =>
          /\ Cardinality(RowsForUrl(products', task.arg)) = 1
          /\ history' = history]_vars

----------------------------------------------------------------------------
(* Claims on the notification evaluator *)

\* the notifications the latest evaluator call created
Created == SubSeq(notifications, lastCall.first, Len(notifications))

CreatedFor(sid) == {k \in 1..Len(Created) : Created[k].subscription_id = sid}

Called == lastCall.fn # "none"

Decrease == lastCall.old_price # None /\ lastCall.new_price < lastCall.old_price

AbsoluteCrossed(sub) ==
    sub.price_threshold # None /\ lastCall.new_price <= sub.price_threshold

PercentageCrossed(sub) ==
    /\ sub.percentage_threshold # None
    /\ (lastCall.old_price - lastCall.new_price) * 100
           >= sub.percentage_threshold * lastCall.old_price

\* C9: one evaluator call creates at most one notification for each
\* subscription it loaded, and exactly one for a subscription whose absolute
\* and percentage thresholds are both crossed
C9_OneIntentPerSubscription ==
    /\ \A s \in SubscriptionIds : Cardinality(CreatedFor(s)) <= 1
    /\ Called /\ Decrease =>
          \A k \in 1..Len(lastCall.subs) :
              AbsoluteCrossed(lastCall.subs[k]) /\ PercentageCrossed(lastCall.subs[k])
                  => Cardinality(CreatedFor(lastCall.subs[k].id)) = 1

\* a call from 100 to 75 loaded a subscription with price_threshold 80 and
\* percentage_threshold 20 and created one notification for it
C9_Witness ==
    /\ Called
    /\ lastCall.old_price = 100
    /\ lastCall.new_price = 75
    /\ \E k \in 1..Len(lastCall.subs) :
          /\ lastCall.subs[k].price_threshold = 80
          /\ lastCall.subs[k].percentage_threshold = 20
          /\ Cardinality(CreatedFor(lastCall.subs[k].id)) = 1

\* the kind the classification rule gives a subscription, a threshold being
\* set when it is not null
ExpectedKind(sub) ==
    IF AbsoluteCrossed(sub) THEN "price_threshold"
    ELSE IF PercentageCrossed(sub) THEN "price_drop"
    ELSE "none"

KindsCreatedFor(sid) == {Created[k].notification_type : k \in CreatedFor(sid)}

\* C10: on a price decrease every loaded subscription gets the kind of the
\* classification rule: price_threshold when its absolute threshold is set
\* and the new price is at or below it, else price_drop when its percentage
\* threshold is set and the drop reaches it, else nothing
C10_ThresholdClassification ==
    Called /\ Decrease =>
        \A k \in 1..Len(lastCall.subs) :
            KindsCreatedFor(lastCall.subs[k].id) =
                IF ExpectedKind(lastCall.subs[k]) = "none" THEN {}
                ELSE {ExpectedKind(lastCall.subs[k])}

\* a step that is a call of one of the evaluators
EvaluatorCall == lastCall'.n = lastCall.n + 1

LoadedIds(call) == {call.subs[k].id : k \in 1..Len(call.subs)}

\* the active subscriptions watching a product: those on the product and
\* the brand subscriptions on its brand
Watchers(product_id) ==
    {s \in SubscriptionIds :
        /\ subscriptions[s].is_active
        /\ \/ subscriptions[s].product_id = product_id
           \/ /\ subscriptions[s].subscription_type = "brand"
              /\ subscriptions[s].brand_name = products[product_id].brand}

\* C11: an evaluation of a price drop of a product loads every active
\* product subscription on the product and every active brand subscription
\* on the product's brand
C11_DualLookup ==
    [][EvaluatorCall /\ price_dropped(lastCall'.old_price, lastCall'.new_price) =>
          LoadedIds(lastCall') = Watchers(lastCall'.product_id)]_vars

----------------------------------------------------------------------------
(* Claims on the adapter registry *)

\* the single-URL scan has resolved the adapter for its URL
Resolved == task.kind = "single" /\ task.scraper # ""

Claimers(url) == {i \in 1..Len(SCRAPERS) : can_handle_url(SCRAPERS[i], url)}

----------------------------------------------------------------------------
(* Claims on the fetch engine *)

LastOutcome == fetch.outcomes[Len(fetch.outcomes)]

IsSuccess(outcome) == outcome.transport = "ok" /\ outcome.status \in 200..299

RateLimited(outcome) ==
    outcome.transport = "ok" /\ outcome.status = 429 /\ outcome.retry_after # None

\* C13: make_request either returns a response with a 2xx status or raises,
\* and when every attempt has failed what it raises is the transport or HTTP
\* error of the last attempt
C13_SuccessOrLastError ==
    /\ fetch.pc = "returned" =>
          /\ fetch.result.kind = "response"
          /\ IsSuccess(LastOutcome)
    /\ fetch.pc = "raised" =>
          /\ fetch.result.kind \in {"RequestError", "HTTPStatusError"}
          /\ fetch.result.attempt = Len(fetch.outcomes)

\* C14: make_request never sends more requests than the configured
\* attempts; after a 429 with Retry-After: s it sleeps at least s seconds
\* before the next request; and while it has only seen such answers and has
\* attempts left it goes on, and returns the success response that follows
C14_RateLimitRetry ==
    /\ Len(fetch.outcomes) <= fetch.attempts
    /\ \A i \in 2..Len(fetch.outcomes) :
          RateLimited(fetch.outcomes[i - 1]) =>
              fetch.gaps[i] >= fetch.outcomes[i - 1].retry_after
    /\ ( /\ fetch.pc # "idle"
         /\ \A i \in 1..Len(fetch.outcomes) : RateLimited(fetch.outcomes[i])
         /\ Len(fetch.outcomes) < fetch.attempts ) => fetch.pc = "loop"
    /\ ( /\ fetch.outcomes # <<>>
         /\ IsSuccess(LastOutcome)
         /\ \A i \in 1..(Len(fetch.outcomes) - 1) : RateLimited(fetch.outcomes[i]) )
          => /\ fetch.pc = "returned"
             /\ fetch.result.kind = "response"
             /\ fetch.result.status = LastOutcome.status

\* with three attempts, two answers of 429 with Retry-After: 2 and then a
\* success: the response is returned after sleeps of at least 2 seconds
C14_Witness ==
    /\ fetch.attempts = 3
    /\ fetch.outcomes = <<Response(429, 2), Response(429, 2), Response(200, None)>>
    /\ fetch.pc = "returned"
    /\ fetch.gaps[2] >= 2
    /\ fetch.gaps[3] >= 2

----------------------------------------------------------------------------
(* Claims on change detection *)

\* the change rule: a scraped price that is not null and differs from the
\* stored one
Differs(scraped_price, stored_price) ==
    scraped_price # None /\ scraped_price # stored_price

\* a single-URL scan of a tracked URL returns
SingleUpdates == SingleReturns /\ task.existing.id # 0

\* C15: a scan of a tracked product records a price change (appends a
\* PriceSample) if and only if the scraped price is not null and differs
\* from the stored current_price, zero included
C15_ChangeDetection ==
    [][ /\ ScrapedStep =>
              (Len(history') > Len(history)
                   <=> Differs(CurrentScrape.price, products[CurrentId].current_price))
        /\ SingleUpdates =>
              (Len(history') > Len(history)
                   <=> Differs(scrape_product(task.arg).price,
                               products[task.existing.id].current_price)) ]_vars

----------------------------------------------------------------------------
(* Claims on the stored subscriptions *)

\* C16: every stored subscription has the target of its type and no other:
\* a product subscription has the id of a product and no brand_name, a brand
\* subscription has a brand_name and no product_id
C16_SubscriptionTarget ==
    \A s \in SubscriptionIds :
        LET sub == subscriptions[s]
        IN  IF sub.subscription_type = "product"
            THEN sub.product_id \in ProductIds /\ sub.brand_name = NoBrand
            ELSE /\ sub.subscription_type = "brand"
                 /\ sub.brand_name \notin {NoBrand, ""}
                 /\ sub.product_id = None

\* a product subscription and a brand subscription are stored
C16_Witness ==
    /\ \E s \in SubscriptionIds :
          subscriptions[s].subscription_type = "product" /\ subscriptions[s].product_id = 1
    /\ \E s \in SubscriptionIds :
          subscriptions[s].subscription_type = "brand" /\ subscriptions[s].brand_name = "acme"

\* C17: every stored subscription has at least one of price_threshold and
\* percentage_threshold not null, after any creations and threshold updates
C17_SubscriptionThreshold ==
    \A s \in SubscriptionIds :
        \/ subscriptions[s].price_threshold # None
        \/ subscriptions[s].percentage_threshold # None

\* the notifications a step added
Added == {k \in 1..Len(notifications') : k > Len(notifications)}

\* C18: delete keeps the row and only clears is_active; no step removes a
\* subscription row; an inactive subscription is answered with 404 by
\* GET /subscriptions/{id}, is in neither evaluator lookup, and no step adds
\* a notification for it
C18_SoftDelete ==
    [][
        /\ \A s \in SubscriptionIds :
              /\ delete(s) = [subscriptions EXCEPT ![s].is_active = FALSE]
              /\ s \in DOMAIN subscriptions'
              /\ subscriptions'[s].subscription_type = subscriptions[s].subscription_type
              /\ subscriptions'[s].product_id = subscriptions[s].product_id
              /\ subscriptions'[s].brand_name = subscriptions[s].brand_name
        /\ \A s \in SubscriptionIds :
              ~subscriptions[s].is_active =>
                  /\ get_subscription(s) = 404
                  /\ \A p \in {None} \cup (1..MaxProducts) :
                         s \notin get_subscriptions_for_product(p)
                  /\ \A b \in {NoBrand, "", "acme"} :
                         s \notin get_subscriptions_for_brand(b)
                  /\ \A k \in Added : notifications'[k].subscription_id # s
    ]_vars

\* a price drop that meets the threshold of a deleted subscription is
\* evaluated and adds nothing
C18_Witness ==
    /\ lastCall.n > 0
    /\ price_dropped(lastCall.old_price, lastCall.new_price)
    /\ lastCall.first = Len(notifications) + 1
    /\ \E s \in SubscriptionIds :
          /\ ~subscriptions[s].is_active
          /\ subscriptions[s].product_id = lastCall.product_id
          /\ notification_type(subscriptions[s], lastCall.old_price,
                               lastCall.new_price) # "none"

\* C19: a single-URL scan of a URL that is not tracked, that an adapter
\* claims and whose scrape returns a listing (whatever its price and
\* currency) returns the id of a product row for that URL
C19_CreatedOnFirstScrape ==
    [][(/\ task.kind = "single"
        /\ task.pc = "scrape"
        /\ task'.pc # "scrape"
        /\ task.existing.id = 0
        /\ get_scraper_for_url(task.arg) # NoScraper
        /\ ~scrape_product(task.arg).error)
       => (/\ task'.pc = "returned"
           /\ task'.product_id \in 1..Len(products')
           /\ products'[task'.product_id].url = Normalize(task.arg))]_vars

----------------------------------------------------------------------------
(* Claims on URL uniqueness *)

\* C20: in every interleaving of two sessions that scan or create URLs
\* differing in case or surrounding whitespace, the stored URLs are
\* normalised, no two product rows have the same normalised URL, and a
\* lookup by any spelling of a stored URL finds the row
C20_UrlUnique ==
    /\ \A p \in ProductIds : products[p].url = Normalize(products[p].url)
    /\ \A p, q \in ProductIds :
          p # q => Normalize(products[p].url) # Normalize(products[q].url)
    /\ \A url \in RaceUrls :
          (\E p \in ProductIds : Normalize(products[p].url) = Normalize(url))
              => /\ get_by_url(url) # 0
                 /\ products[get_by_url(url)].url = Normalize(url)

\* both sessions passed the lookup for two spellings of one URL; one
\* committed its row and the other's INSERT failed on the unique index
C20_Witness ==
    /\ race[1].url # race[2].url
    /\ Normalize(race[1].url) = Normalize(race[2].url)
    /\ \E w \in Workers :
          /\ race[w].pc = "raised"
          /\ race[w].error = "IntegrityError"
          /\ race[3 - w].product_id \in ProductIds
          /\ products[race[3 - w].product_id].url = Normalize(race[w].url)

----------------------------------------------------------------------------
(* Claims on the API-backed adapters *)

\* C21: when the item-lookup endpoint answers 404 to every request of a
\* scrape, scrape_product of the eBay and Etsy adapters fails with the
\* adapter's own "not found" error, not with the error of a transport or
\* HTTP failure after retries
C21_NotFoundMapping ==
    ( /\ fetch.pc \in {"returned", "raised"}
      /\ \A i \in 1..Len(fetch.outcomes) : fetch.outcomes[i] = Response(404, None) )
        => api_scrape_product(fetch) = "ValueError: not found"

----------------------------------------------------------------------------
(* Claims on failed scans in a batch *)

\* a step of the loop of a scan task whose product failed
FailedStep ==
    /\ task.kind \in {"batch", "brand"}
    /\ task.pc = "loop"
    /\ task'.kind = task.kind
    /\ task'.errors # task.errors

\* C22 as claimed: once the batch is over, a failed product that is still
\* active is first in the next selection: no active product is staler
C22_FailedIsFirst ==
    BatchOver =>
        \A p \in task.errors :
            products[p].is_active =>
                \A q \in ProductIds :
                    products[q].is_active => ~Staler(products[q], products[p])

\* C22: a step of a batch whose product failed (no adapter, or the scrape
\* raised) leaves the product table and the price history as they were, so
\* the failed product keeps its current_price, currency, samples and
\* last_scraped_at; once the batch is over the failed product is staler than
\* every product the batch did scan
C22_FailedScanFrame ==
    /\ [][FailedStep => products' = products /\ history' = history]_vars
    /\ [](BatchOver =>
            \A p \in task.errors :
                \A q \in SelectedIds(task) \ task.errors :
                    Staler(products[p], products[q]))

\* a batch is over in which a product scanned before failed and kept its
\* timestamp and price, and another product was scanned
C22_Witness ==
    /\ BatchOver
    /\ \E p \in task.errors :
          /\ products[p].last_scraped_at # NoTime
          /\ products[p].current_price # None
    /\ SelectedIds(task) \ task.errors # {}

----------------------------------------------------------------------------
(* Claims on price text parsing *)

\* the symbols of currency_map that occur in a text
SymbolsIn(t) ==
    {k \in 1..Len(currency_map) : \E i \in 1..Len(t) : t[i] = currency_map[k].symbol}

HasDigit(t) == \E i \in 1..Len(t) : t[i] \in Digits

\* the text without its commas and without the occurrences of one symbol
Without(t, symbol) == SelectSeq(t, LAMBDA c : c # "," /\ c # symbol)

\* run is the first number of t: a maximal run of digits that starts at the
\* first digit of t, with the decimal point that follows it and the digits
\* after that point
IsFirstNumber(t, run) ==
    \E i \in 1..Len(t) :
        /\ t[i] \in Digits
        /\ \A h \in 1..(i - 1) : t[h] \notin Digits
        /\ \E a \in i..Len(t) :
              /\ \A h \in i..a : t[h] \in Digits
              /\ a < Len(t) => t[a + 1] \notin Digits
              /\ IF a < Len(t) /\ t[a + 1] = "."
                 THEN \E b \in (a + 1)..Len(t) :
                         /\ \A h \in (a + 2)..b : t[h] \in Digits
                         /\ b < Len(t) => t[b + 1] \notin Digits
                         /\ run = SubSeq(t, i, b)
                 ELSE run = SubSeq(t, i, a)

\* C23: parse_price never raises; empty text and text without digits and
\* without a symbol give (null, USD); a symbol without a number gives null
\* with the currency of the symbol; otherwise the price is the first run of
\* digits, with an optional decimal point, of the text without its commas
\* and its symbol, and the currency is that of the symbol, USD by default
C23_ParsePrice ==
    parse.pc = "done" =>
        LET text == parse.text
            result == parse.result
            symbols == SymbolsIn(text)
        IN  /\ result.raised = ""
            /\ IF symbols = {} THEN result.currency = "USD"
               ELSE \E k \in symbols :
                       /\ result.currency = currency_map[k].code
                       /\ \A j \in symbols : k <= j
            /\ IF ~HasDigit(text) THEN result.price = NullPrice
               ELSE \E run \in {SubSeq(text, i, j) : i, j \in 1..Len(text)} \cup
                               {SelectSeq(SubSeq(text, i, j), LAMBDA c : c \in Digits \cup {"."}) :
                                   i, j \in 1..Len(text)} :
                       /\ IsFirstNumber(
                              Without(text, IF symbols = {} THEN ""
                                            ELSE currency_map[CHOOSE k \in symbols :
                                                     \A j \in symbols : k <= j].symbol),
                              run)
                       /\ result.price = Decimal(run)

\* "$1,2" is parsed as 12 US dollars, and "€ x" as no price in euros
C23_Witness ==
    \/ /\ parse.text = <<"$", "1", ",", "2">>
       /\ parse.result = Returned(DecimalOf(12, 0), "USD")
    \/ /\ parse.text = <<"2", ".", "1", "€">>
       /\ parse.result = Returned(DecimalOf(21, -1), "EUR")

----------------------------------------------------------------------------
(* Claims on the credential cache *)

\* the cached token is more than the safety margin away from its expiry
Fresh(e) ==
    /\ e.access_token # None
    /\ e.expires # None
    /\ e.clock < e.expires - SafetyMargin

\* C24: a call of get_access_token serves the cached token, sending no
\* token request and leaving the cache alone, exactly when the time is
\* strictly before the token's expiry minus 300 seconds; otherwise it sends
\* a token request and, when that succeeds, serves the new token and
\* replaces the cached token and its expiry; no token served from the cache
\* is within 300 seconds of its expiry
C24_CredentialCache ==
    [][(ebay.pc = "idle" /\ ebay'.pc = "done") =>
          IF Fresh(ebay)
          THEN /\ ebay'.served = ebay.access_token
               /\ ebay'.cached
               /\ ebay'.requests = ebay.requests
               /\ ebay'.access_token = ebay.access_token
               /\ ebay'.token_expires_at = ebay.token_expires_at
          ELSE /\ ebay'.requests = ebay.requests + 1
               /\ ~ebay'.cached
               /\ ebay'.raised = "" =>
                     /\ ebay'.served = ebay'.access_token
                     /\ ebay'.access_token # ebay.access_token
                     /\ ebay'.expires # None
                     /\ ebay'.token_expires_at = ebay'.expires - SafetyMargin]_vars

\* a call one tick before the instant expiry - 300 was served from the
\* cache, after the clock had moved
C24_Witness ==
    /\ ebay.pc = "done"
    /\ ebay.cached
    /\ ebay.served = ebay.access_token
    /\ ebay.clock > StartTime
    /\ ebay.clock + TickSeconds = ebay.expires - SafetyMargin

----------------------------------------------------------------------------
(* Claims on the politeness delay *)

\* C25: when the loop of a batch starts the scan of a product that is not
\* the first of the batch, at least scraper_request_delay seconds have been
\* slept since the scan of the product before ended
C25_PolitenessBetweenProducts ==
    ( /\ task.kind \in {"batch", "brand"}
      /\ task.pc = "loop"
      /\ 1 < task.i
      /\ task.i <= Len(task.sel) ) => task.slept >= scraper_request_delay

----------------------------------------------------------------------------
(* Claims on the fetch sessions *)

\* C26: once the scan of a product has returned or raised, no adapter, and
\* no helper adapter, holds an open HTTP client
C26_SessionRelease ==
    session.pc \in {"returned", "raised", "idle"} =>
        \A a \in Adapters : ~session.clients[a].open

----------------------------------------------------------------------------
(* Claims on the progress of the periodic scan *)

\* the loop of a batch is at product p: p was selected and is scanned next
Scanning(p) ==
    /\ task.kind = "batch"
    /\ task.pc = "loop"
    /\ task.i <= Len(task.sel)
    /\ task.sel[task.i].id = p

Deactivated(p) == p \in ProductIds /\ ~products[p].is_active

\* the clock or the history of the exploration is used up
Exhausted == now >= MaxClock \/ Len(history) >= MaxHistory

\* C27: under repeated batch scans with a fixed limit, every active product
\* is eventually selected and scanned, whatever the scans of the other
\* products do (unless it is deactivated first)
C27_StarvationFreedom ==
    \A p \in 1..MaxProducts :
        [](p \in ProductIds =>
              <>(Scanning(p) \/ Deactivated(p) \/ Exhausted))

----------------------------------------------------------------------------
(* Claims on concurrent scans *)

\* C28: however a batch scan, a brand scan and a single-URL scan of one
\* product interleave, the product has at most one PriceSample for its
\* creation and one for each price change of the marketplace, and its
\* current_price is the price of its latest PriceSample
C28_NoDuplicateHistory ==
    Shared \in ProductIds =>
        /\ Len(RowsOf(history, Shared)) <= 1 + scans.changes
        /\ products[Shared].current_price = LastPrice(Shared)

----------------------------------------------------------------------------
(* Claims on the notification dispatcher *)

\* C29: a notification is created PENDING; a status only changes from
\* PENDING, to SENT or to FAILED; a dispatch run fetches only PENDING
\* notifications, and when it returns every notification it fetched is SENT
\* or FAILED and sent + failed is the number it fetched
C29_DeliveryLifecycle ==
    [][/\ \A n \in 1..Len(notifications') :
             IF n > Len(notifications)
             THEN notifications'[n].status = "pending"
             ELSE notifications'[n].status # notifications[n].status =>
                      /\ notifications[n].status = "pending"
                      /\ notifications'[n].status \in {"sent", "failed"}
       /\ \A r \in Runs :
             LET run == dispatch'.runs[r]
             IN  /\ (dispatch.runs[r].pc = "idle" /\ run.pc = "loop") =>
                        \A k \in 1..Len(run.fetched) :
                            notifications[run.fetched[k]].status = "pending"
                 /\ run.pc = "returned" =>
                        /\ \A k \in 1..Len(run.fetched) :
                               notifications'[run.fetched[k]].status \in {"sent", "failed"}
                        /\ run.sent + run.failed = Len(run.fetched)]_vars

\* C30: no notification is sent to the user more than once, and once a
\* notification is SENT or FAILED it is not sent again and its status is not
\* written again, also when dispatch runs overlap
C30_AtMostOnceDelivery ==
    [][\A n \in NotificationIds :
          /\ dispatch'.delivered[n] <= 1
          /\ notifications[n].status \in {"sent", "failed"} =>
                /\ dispatch'.delivered[n] = dispatch.delivered[n]
                /\ \A r \in Runs :
                      ~( /\ dispatch.runs[r].pc = "loop"
                         /\ dispatch.runs[r].i <= Len(dispatch.runs[r].fetched)
                         /\ dispatch.runs[r].fetched[dispatch.runs[r].i] = n
                         /\ dispatch'.runs[r].i = dispatch.runs[r].i + 1 )]_vars

====
